---- MODULE Spec2Model ----
(***************************************************************************)
(* A model of the ray tracer: the camera's render loop (camera.rs), the    *)
(* intersection code (ray.rs), and the vector helpers (vec3.rs).           *)
(*                                                                         *)
(* f32 values are extended rationals [n, d] in lowest terms with d >= 0:   *)
(* d > 0 is the finite value n/d, [1,0] is +inf, [-1,0] is -inf and [0,0]  *)
(* is NaN.  Arithmetic on them is exact; the one rounded operation is the  *)
(* square root, which is rounded down to a binary fraction of at most      *)
(* SqrtBits bits.  Signed zeros are not distinguished.                     *)
(***************************************************************************)
EXTENDS Integers, Sequences, FiniteSets, TLC

VARIABLES
    cam,        \* the Camera struct (camera.rs:12-23)
    caller,     \* the public fields as the caller set them before render
    pc,         \* position of the running operation
    i, j,       \* render's column and row loop variables
    stdout,     \* lines written to standard output, oldest first
    stderr,     \* values of the progress notifications logged, oldest first
    ray,        \* the Ray under test
    ray_t,      \* the query Interval
    objects,    \* HittableList.objects, in insertion order
    rec,        \* the caller's HitRecord (out parameter of hit)
    ret,        \* value returned by the operation under test
    depth,      \* ray_color's depth argument
    queries,    \* number of world.hit calls ray_color has made
    bounces,    \* number of ray_color calls waiting for their recursive call
    vec,        \* the Vec3 under test
    arg         \* (index, value) argument of the indexing operation

vars == <<cam, caller, pc, i, j, stdout, stderr, ray, ray_t, objects, rec,
          ret, depth, queries, bounces, vec, arg>>

renderVars == <<cam, caller, i, j, stdout, stderr>>
hitVars    == <<ray, ray_t, objects, rec>>
colorVars  == <<depth, queries, bounces>>
vecVars    == <<vec, arg>>

----------------------------------------------------------------------------
(* f32 arithmetic *)

Abs(x) == IF x < 0 THEN -x ELSE x

Sign(x) == IF x < 0 THEN -1 ELSE IF x > 0 THEN 1 ELSE 0

Max(a, b) == IF a < b THEN b ELSE a

RECURSIVE Gcd(_, _)
Gcd(a, b) == IF b = 0 THEN a ELSE Gcd(b, a % b)

\* n/d in lowest terms; d = 0 gives an infinity or NaN.
Norm(n, d) ==
    IF d = 0 THEN [n |-> Sign(n), d |-> 0]
    ELSE LET g == Gcd(Abs(n), Abs(d))
             s == Sign(d)
         IN  [n |-> (s * n) \div g, d |-> (s * d) \div g]

F(k) == [n |-> k, d |-> 1]

NaN == [n |-> 0, d |-> 0]

INFINITY == [n |-> 1, d |-> 0]

NEG_INFINITY == [n |-> -1, d |-> 0]

IsNaN(x) == x.n = 0 /\ x.d = 0

IsFinite(x) == x.d > 0

\* The sum, over the least common denominator.
FAdd(x, y) ==
    IF IsNaN(x) \/ IsNaN(y) THEN NaN
    ELSE IF x.d = 0 /\ y.d = 0 THEN (IF x.n = y.n THEN x ELSE NaN)
    ELSE IF x.d = 0 THEN x
    ELSE IF y.d = 0 THEN y
    ELSE LET g == Gcd(x.d, y.d)
         IN  Norm(x.n * (y.d \div g) + y.n * (x.d \div g), (x.d \div g) * y.d)

FNeg(x) == [n |-> -x.n, d |-> x.d]

FSub(x, y) == FAdd(x, FNeg(y))

\* The product, common factors cancelled first.
FMul(x, y) ==
    IF x.d = 0 \/ y.d = 0 THEN Norm(x.n * y.n, x.d * y.d)
    ELSE LET g1 == Gcd(Abs(x.n), y.d)
             g2 == Gcd(Abs(y.n), x.d)
         IN  Norm((x.n \div g1) * (y.n \div g2), (x.d \div g2) * (y.d \div g1))

\* 1/y; 1/0 is +inf.
Recip(y) == IF y.n = 0 /\ y.d > 0 THEN INFINITY ELSE Norm(y.d, y.n)

FDiv(x, y) == FMul(x, Recip(y))

\* x < y; false when either side is NaN.
FLt(x, y) ==
    /\ ~IsNaN(x)
    /\ ~IsNaN(y)
    /\ IF x.d = 0 /\ y.d = 0 THEN x.n < y.n
       ELSE IF x.d = 0 THEN x.n < 0
       ELSE IF y.d = 0 THEN y.n > 0
       ELSE LET g == Gcd(x.d, y.d)
            IN  x.n * (y.d \div g) < y.n * (x.d \div g)

FGt(x, y) == FLt(y, x)

FLe(x, y) == ~IsNaN(x) /\ ~IsNaN(y) /\ ~FLt(y, x)

\* f32::max: the other operand when one is NaN.
FMax(x, y) == IF IsNaN(x) THEN y ELSE IF IsNaN(y) THEN x ELSE IF FLt(x, y) THEN y ELSE x

I32_MAX == 2147483647

\* `x as i32`: truncation toward zero, saturating, NaN to 0.
AsI32(x) ==
    IF IsNaN(x) THEN 0
    ELSE IF x.d = 0 THEN x.n * I32_MAX
    ELSE Sign(x.n) * (Abs(x.n) \div x.d)

\* Rounding to the nearest integer, halves away from zero (f32::round).
RoundI32(x) ==
    IF IsNaN(x) THEN 0
    ELSE IF x.d = 0 THEN x.n * I32_MAX
    ELSE Sign(x.n) * ((2 * Abs(x.n) + x.d) \div (2 * x.d))

----------------------------------------------------------------------------
(* Square root *)

\* Bits kept after the binary point by the rounded square root, when the
\* operand is small enough to leave room for them.
SqrtBits == 15

RECURSIVE Pow(_, _)
Pow(b, e) == IF e = 0 THEN 1 ELSE b * Pow(b, e - 1)

\* The largest s in lo..hi-1 with s*s <= x, given lo*lo <= x < hi*hi.
RECURSIVE ISqrtIn(_, _, _)
ISqrtIn(x, lo, hi) ==
    IF hi - lo <= 1 THEN lo
    ELSE LET mid == (lo + hi) \div 2
         IN  IF mid * mid <= x THEN ISqrtIn(x, mid, hi) ELSE ISqrtIn(x, lo, mid)

\* The largest integer whose square is at most x, for 0 <= x < 2^31.
ISqrt(x) == ISqrtIn(x, 0, 46341)

Pow4 == [k \in 0..SqrtBits |-> Pow(4, k)]

Pow2 == [k \in 0..SqrtBits |-> Pow(2, k)]

RootRoom == Pow(2, 30)

\* The most fractional bits k <= SqrtBits with n * 4^k <= 2^30.
RECURSIVE RootBits(_, _)
RootBits(n, k) ==
    IF k < SqrtBits /\ Pow4[k + 1] <= RootRoom \div Max(n, 1) THEN RootBits(n, k + 1)
    ELSE k

\* f32::sqrt: NaN below zero, otherwise the root rounded down to a binary
\* fraction.
FSqrt(x) ==
    IF IsNaN(x) \/ FLt(x, F(0)) THEN NaN
    ELSE IF x.d = 0 \/ x.n = 0 THEN x
    ELSE LET k == RootBits(x.n, 0)
         IN  Norm(ISqrt((x.n * Pow4[k]) \div x.d), Pow2[k])

----------------------------------------------------------------------------
(* Vec3 (vec3.rs) *)

Vec3New(x, y, z) == [x |-> x, y |-> y, z |-> z]

\* A vector with integer components.
V(x, y, z) == Vec3New(F(x), F(y), F(z))

VAdd(a, b) == Vec3New(FAdd(a.x, b.x), FAdd(a.y, b.y), FAdd(a.z, b.z))

VSub(a, b) == Vec3New(FSub(a.x, b.x), FSub(a.y, b.y), FSub(a.z, b.z))

VMul(a, k) == Vec3New(FMul(a.x, k), FMul(a.y, k), FMul(a.z, k))

VDiv(a, k) == Vec3New(FDiv(a.x, k), FDiv(a.y, k), FDiv(a.z, k))

VNeg(a) == Vec3New(FNeg(a.x), FNeg(a.y), FNeg(a.z))

Dot(a, b) == FAdd(FAdd(FMul(a.x, b.x), FMul(a.y, b.y)), FMul(a.z, b.z))

SquaredLength(a) == FAdd(FAdd(FMul(a.x, a.x), FMul(a.y, a.y)), FMul(a.z, a.z))

Length(a) == FSqrt(SquaredLength(a))

Unit(a) == VDiv(a, Length(a))

Zero == V(0, 0, 0)

\* The value of an indexing expression that panics.
Panic == [panic |-> "out of range"]

IndexSwapped(v, k) ==
    CASE k = 0 -> v.x
      [] k = 1 -> v.z
      [] k = 2 -> v.y
      [] OTHER -> Panic

\* Index<usize> for Vec3: the component read.
Index(v, k) ==
    CASE k = 0 -> v.x
      [] k = 1 -> v.y
      [] k = 2 -> v.z
      [] OTHER -> Panic

\* IndexMut<usize> for Vec3 followed by an assignment through the reference:
\* the vector afterwards.
IndexMut(v, k, val) ==
    CASE k = 0 -> [v EXCEPT !.x = val]
      [] k = 1 -> [v EXCEPT !.y = val]
      [] k = 2 -> [v EXCEPT !.z = val]
      [] OTHER -> Panic

LinearToGammaNone(x) == x

\* Vec3::linear_to_gamma.
LinearToGamma(x) == IF FGt(x, F(0)) THEN FSqrt(x) ELSE F(0)

\* Interval::clamp.
Clamp(iv, x) ==
    IF FLt(x, iv.min) THEN iv.min
    ELSE IF FGt(x, iv.max) THEN iv.max
    ELSE x

\* `x as u8`: truncation toward zero, saturating, NaN to 0.
AsU8(x) ==
    IF IsNaN(x) \/ FLt(x, F(0)) THEN 0
    ELSE IF x.d = 0 \/ FGt(x, F(255)) THEN 255
    ELSE x.n \div x.d

Intensity == [min |-> F(0), max |-> Norm(999, 1000)]

ChannelScale == Norm(25599, 100)

\* One channel of rgba.
Channel(x) == AsU8(FMul(Clamp(Intensity, LinearToGamma(x)), ChannelScale))

\* Vec3::rgba.
Rgba(v) == <<Channel(v.x), Channel(v.y), Channel(v.z), 255>>

----------------------------------------------------------------------------
(* Interval, Ray, HitRecord, Sphere, HittableList (ray.rs) *)

IntervalNew(min, max) == [min |-> min, max |-> max]

SurroundsClosed(iv, x) == FLe(iv.min, x) /\ FLe(x, iv.max)

Surrounds(iv, x) == FLt(iv.min, x) /\ FLt(x, iv.max)

RayNew(origin, direction) == [origin |-> origin, direction |-> direction]

At(r, t) == VAdd(r.origin, VMul(r.direction, t))

\* HitRecord::default.
HitRecordDefault == [t |-> F(0), point |-> V(0, 0, 0), normal |-> V(0, 0, 0),
                     front_face |-> FALSE]

FrontFaceFlipped(r, outward_normal) == FGt(Dot(r.direction, outward_normal), F(0))

\* The comparison of set_face_normal.
FrontFace(r, outward_normal) == FLt(Dot(r.direction, outward_normal), F(0))

\* HitRecord::set_face_normal.
SetFaceNormal(rc, r, outward_normal) ==
    [rc EXCEPT !.front_face = FrontFace(r, outward_normal),
               !.normal = IF FrontFace(r, outward_normal) THEN outward_normal
                          ELSE VNeg(outward_normal)]

SphereNew(center, radius) == [center |-> center, radius |-> FMax(radius, F(0))]

\* The quantities Sphere::hit computes before choosing a root, from a, h, c
\* and the discriminant.
QuadraticRoots(a, h, c, discriminant) ==
    [a |-> a, h |-> h, c |-> c, discriminant |-> discriminant,
     root1 |-> FDiv(FSub(h, FSqrt(discriminant)), a),
     root2 |-> FDiv(FAdd(h, FSqrt(discriminant)), a)]

QuadraticTerms(a, h, c) == QuadraticRoots(a, h, c, FSub(FMul(h, h), FMul(a, c)))

QuadraticOc(oc, radius, r) ==
    QuadraticTerms(SquaredLength(r.direction), Dot(r.direction, oc),
                   FSub(SquaredLength(oc), FMul(radius, radius)))

Quadratic(s, r) == QuadraticOc(VSub(s.center, r.origin), s.radius, r)

Miss(rc) == [hit |-> FALSE, rec |-> rc]

\* Sphere::hit from the accepted root on: the record is filled in.
SphereHitAccept(root, point, s, r, rc) ==
    [hit |-> TRUE,
     rec |-> SetFaceNormal([rc EXCEPT !.t = root, !.point = point], r,
                           VDiv(VSub(point, s.center), s.radius))]

\* Sphere::hit with the root the first test left: the second test.
SphereHitRoot(root, s, r, rt, rc) ==
    IF ~Surrounds(rt, root) THEN Miss(rc)
    ELSE SphereHitAccept(root, At(r, root), s, r, rc)

SphereHitQuadratic(q, s, r, rt, rc) ==
    IF FLt(q.discriminant, F(0)) THEN Miss(rc)
    ELSE IF ~Surrounds(rt, q.root1) THEN SphereHitRoot(q.root2, s, r, rt, rc)
    ELSE SphereHitAccept(q.root1, At(r, q.root1), s, r, rc)

\* Sphere::hit: the returned flag and the record left in rc.
SphereHit(s, r, rt, rc) == SphereHitQuadratic(Quadratic(s, r), s, r, rt, rc)

\* The interval a member is tested against.
MemberIntervalWide(rt, closest_so_far) == rt

MemberInterval(rt, closest_so_far) == IntervalNew(rt.min, closest_so_far)

\* The body of the loop of HittableList::hit, given what the member returned.
ListStep(st, res) ==
    IF res.hit
    THEN [temp_rec |-> res.rec, hit_anything |-> TRUE,
          closest_so_far |-> res.rec.t, rec |-> res.rec]
    ELSE [st EXCEPT !.temp_rec = res.rec]

\* The loop of HittableList::hit from member k on.
RECURSIVE ListLoop(_, _, _, _, _)
ListLoop(objs, k, r, rt, st) ==
    IF k > Len(objs) THEN st
    ELSE ListLoop(objs, k + 1, r, rt,
             ListStep(st, SphereHit(objs[k], r, MemberInterval(rt, st.closest_so_far),
                                    st.temp_rec)))

ListResult(st) == [hit |-> st.hit_anything, rec |-> st.rec]

\* HittableList::hit: the returned flag and the record left in rc.
ListHit(objs, r, rt, rc) ==
    ListResult(ListLoop(objs, 1, r, rt,
                   [temp_rec |-> HitRecordDefault, hit_anything |-> FALSE,
                    closest_so_far |-> rt.max, rec |-> rc]))

----------------------------------------------------------------------------
(* Camera (camera.rs) *)

\* The width initialize assigns.
InitializeWidth == 400

\* Aspect ratios the caller may set; each is exact in f32.
AspectRatios == {F(128), F(200), F(256), F(400), F(1000)}

CallerWidths == {1, 100, 400}

SampleCounts == {1, 10}

\* Largest max_depth and largest depth argument explored.
MaxDepth == 2

\* img_height as initialize derives it from the width and the aspect ratio.
HeightCastRound(w, ar) == Max(RoundI32(FDiv(F(w), ar)), 1)

HeightOf(w, ar) == Max(AsI32(FDiv(F(w), ar)), 1)

\* The width initialize leaves in the camera.
WidthOf(c) == InitializeWidth

\* Camera::initialize, the fields the render loop reads.
Initialize(c) ==
    LET w == WidthOf(c)
    IN  [c EXCEPT !.img_width = w,
                  !.img_height = HeightOf(w, c.aspect_ratio),
                  !.pixel_samples_scale = FDiv(F(1), F(c.samples_per_pixel))]

\* Camera::default with the public fields set by the caller.
Cameras ==
    { [aspect_ratio |-> ar, img_width |-> w, samples_per_pixel |-> s,
       max_depth |-> md, img_height |-> 1, pixel_samples_scale |-> F(0)] :
      ar \in AspectRatios, w \in CallerWidths, s \in SampleCounts,
      md \in 0..MaxDepth }

\* A header line and a pixel line of the output.  A pixel line is recorded by
\* the loop position that produced it; its text is write_color of rgba below.
HeaderLines(c) == << <<"P3">>, <<c.img_width, c.img_height>>, <<255>> >>

PixelLine(row, col) == [row |-> row, col |-> col]

\* The value render logs at the start of a row.
ScanlinesRemaining(c, row) == c.img_width - row

idle == "idle"

HitIdle ==
    /\ ray = RayNew(V(0, 0, 0), V(0, 0, 0))
    /\ ray_t = [min |-> F(0), max |-> F(0)]
    /\ objects = << >>
    /\ rec = HitRecordDefault

RenderIdle ==
    /\ cam = [aspect_ratio |-> F(1), img_width |-> 100, samples_per_pixel |-> 10,
              max_depth |-> 10, img_height |-> 1, pixel_samples_scale |-> F(0)]
    /\ caller = cam
    /\ i = 0
    /\ j = 0
    /\ stdout = << >>
    /\ stderr = << >>

ColorIdle == depth = 0 /\ queries = 0 /\ bounces = 0

VecIdle == vec = Zero /\ arg = [index |-> 0, value |-> F(0)]

InitRender ==
    /\ cam \in Cameras
    /\ caller = cam
    /\ pc = "render"
    /\ i = 0
    /\ j = 0
    /\ stdout = << >>
    /\ stderr = << >>
    /\ ret = idle
    /\ HitIdle
    /\ ColorIdle
    /\ VecIdle

\* render, lines 44-48: initialize, then the header.
RenderBegin ==
    /\ pc = "render"
    /\ cam' = Initialize(cam)
    /\ stdout' = stdout \o HeaderLines(cam')
    /\ j' = 0
    /\ pc' = "rows"
    /\ UNCHANGED <<caller, i, stderr, ret, hitVars, colorVars, vecVars>>

\* render, lines 50-51: the head of the row loop and its notification.
RowBegin ==
    /\ pc = "rows"
    /\ j < cam.img_height
    /\ stderr' = Append(stderr, ScanlinesRemaining(cam, j))
    /\ i' = 0
    /\ pc' = "cols"
    /\ UNCHANGED <<cam, caller, j, stdout, ret, hitVars, colorVars, vecVars>>

ColumnBoundShort(c) == c.img_width - 1

\* The bound of the column loop.
ColumnBound(c) == c.img_width

\* render, lines 52-61: one pixel; the samples are accumulated, scaled and
\* written by write_color as one line.
WritePixel ==
    /\ pc = "cols"
    /\ i < ColumnBound(cam)
    /\ stdout' = Append(stdout, PixelLine(j, i))
    /\ i' = i + 1
    /\ UNCHANGED <<cam, caller, pc, j, stderr, ret, hitVars, colorVars, vecVars>>

\* The column loop is exhausted: next row.
RowEnd ==
    /\ pc = "cols"
    /\ ~(i < ColumnBound(cam))
    /\ j' = j + 1
    /\ pc' = "rows"
    /\ UNCHANGED <<cam, caller, i, stdout, stderr, ret, hitVars, colorVars, vecVars>>

\* The row loop is exhausted: render returns.
RenderEnd ==
    /\ pc = "rows"
    /\ ~(j < cam.img_height)
    /\ pc' = "done"
    /\ UNCHANGED <<cam, caller, i, j, stdout, stderr, ret, hitVars, colorVars, vecVars>>

NextRender == RenderBegin \/ RowBegin \/ WritePixel \/ RowEnd \/ RenderEnd

SpecRender == InitRender /\ [][NextRender]_vars

----------------------------------------------------------------------------
(* Claims about render *)

PixelCount(c) == c.img_width * c.img_height

\* The k-th line of a complete output for camera c: the three header lines,
\* then the pixels row by row, each row left to right.
ExpectedLine(c, k) ==
    IF k <= 3 THEN HeaderLines(c)[k]
    ELSE PixelLine((k - 4) \div c.img_width, (k - 4) % c.img_width)

\* C1: render writes the three header lines once and first, then exactly
\* img_width*img_height pixel lines in row-major order (rows top to bottom,
\* columns left to right), none twice and none skipped.  Every line written
\* so far is the line of that position in the complete output, the output
\* never exceeds it, and it is complete when render returns.
C1_RowMajorOutput ==
    /\ pc = "render" => stdout = << >>
    /\ pc \in {"rows", "cols", "done"} =>
          /\ Len(stdout) >= 3
          /\ Len(stdout) <= 3 + PixelCount(cam)
          /\ stdout[Len(stdout)] = ExpectedLine(cam, Len(stdout))
          /\ Len(stdout) = 3 + Max(j, 0) * cam.img_width + (IF pc = "cols" THEN i ELSE 0)
    /\ pc = "done" =>
          /\ Len(stdout) = 3 + PixelCount(cam)
          /\ \A k \in 1..Len(stdout) : stdout[k] = ExpectedLine(cam, k)

C1_Witness ==
    /\ pc = "done"
    /\ cam.img_height = 3
    /\ Len(stdout) = 3 + 3 * InitializeWidth
    /\ stdout[Len(stdout)] = PixelLine(2, InitializeWidth - 1)

\* C2: the width the caller set is the output resolution: the header's width
\* and the number of pixels per row equal the caller-set img_width.
C2_CallerWidthIsResolution ==
    pc = "done" =>
        /\ stdout[2][1] = caller.img_width
        /\ Len(stdout) = 3 + caller.img_width * cam.img_height

\* C3 as stated: after initialize, img_height is max(1, round(img_width /
\* aspect_ratio)), rounding to the nearest integer.
C3_HeightRounded ==
    pc # "render" =>
        cam.img_height = Max(1, RoundI32(FDiv(F(cam.img_width), cam.aspect_ratio)))

\* C3 amended: after initialize, img_height is max(1, the quotient img_width /
\* aspect_ratio truncated toward zero), for the img_width the camera holds
\* after initialize: it is 1 when the quotient is below 1, and otherwise the
\* one integer h with h * aspect_ratio <= img_width < (h + 1) * aspect_ratio.
C3_HeightTruncated ==
    pc # "render" =>
        LET w == F(cam.img_width)
            h == cam.img_height
        IN  IF FLt(w, cam.aspect_ratio) THEN h = 1
            ELSE /\ h >= 1
                 /\ FLe(FMul(F(h), cam.aspect_ratio), w)
                 /\ FLt(w, FMul(F(h + 1), cam.aspect_ratio))

\* A quotient whose fraction is a half or more: 400 / 256 = 1.5625.
C3_Witness ==
    /\ pc = "done"
    /\ cam.aspect_ratio = F(256)
    /\ cam.img_height = 1
    /\ FLe(F(3), FMul(F(2), FDiv(F(cam.img_width), cam.aspect_ratio)))

\* C9: the notification at the start of row j reports the rows remaining,
\* img_height - j: it starts at img_height and goes down by one per row.
C9_RowsRemaining ==
    pc # "render" =>
        \A k \in 1..Len(stderr) : stderr[k] = cam.img_height - (k - 1)

----------------------------------------------------------------------------
(* Intersection queries *)

MaxObjects == 2

Origins == {V(0, 0, 0), V(0, 0, -2)}

Directions == {V(0, 0, -1), V(0, 0, -2), V(0, 0, 0), V(1, 0, -2)}

Centers == {V(0, 0, -2), V(0, 0, -3), V(1, 0, -1)}

Radii == {F(-1), F(0), F(1), F(2)}

Spheres == {SphereNew(c, r) : c \in Centers, r \in Radii}

Intervals == {IntervalNew(Norm(1, 1000), INFINITY), IntervalNew(F(1), F(3)),
              IntervalNew(F(0), F(2))}

SeqsUpTo(S, n) == UNION {[1..k -> S] : k \in 0..n}

InitHit ==
    /\ ray \in {RayNew(o, d) : o \in Origins, d \in Directions}
    /\ ray_t \in Intervals
    /\ \/ pc = "list_hit" /\ objects \in SeqsUpTo(Spheres, MaxObjects)
       \/ pc = "sphere_hit" /\ objects \in [1..1 -> Spheres]
    /\ rec = HitRecordDefault
    /\ ret = idle
    /\ RenderIdle
    /\ ColorIdle
    /\ VecIdle

\* hit returns: the flag to the caller, the record through the out parameter.
Returned(res) == ret' = res.hit /\ rec' = res.rec

\* A call of Sphere::hit on the one sphere of objects.
CallSphereHit ==
    /\ pc = "sphere_hit"
    /\ Returned(SphereHit(objects[1], ray, ray_t, rec))
    /\ pc' = "sphere_returned"
    /\ UNCHANGED <<ray, ray_t, objects, renderVars, colorVars, vecVars>>

\* A call of HittableList::hit.
CallListHit ==
    /\ pc = "list_hit"
    /\ Returned(ListHit(objects, ray, ray_t, rec))
    /\ pc' = "list_returned"
    /\ UNCHANGED <<ray, ray_t, objects, renderVars, colorVars, vecVars>>

NextHit == CallSphereHit \/ CallListHit

SpecHit == InitHit /\ [][NextHit]_vars

StrictlyInside(x) == FLt(ray_t.min, x) /\ FLt(x, ray_t.max)

\* What each member alone returns for the query.
Members == [k \in 1..Len(objects) |-> SphereHit(objects[k], ray, ray_t, HitRecordDefault)]

Reverse(sq) == [k \in 1..Len(sq) |-> sq[Len(sq) + 1 - k]]

\* C4: HittableList.hit returns true iff some member has a hit strictly inside
\* the interval; the record is that of the member with the smallest accepted
\* t, whatever the insertion order, and among members with the same smallest t
\* that of the first in insertion order.
C4_NearestMember ==
    pc = "list_returned" =>
        LET M == Members
            hitters == {k \in 1..Len(objects) : M[k].hit}
        IN  /\ ret = (hitters # {})
            /\ ret =>
                  /\ StrictlyInside(rec.t)
                  /\ \E k \in hitters :
                        /\ rec = M[k].rec
                        /\ \A m \in hitters :
                              /\ FLe(rec.t, M[m].rec.t)
                              /\ m < k => FLt(rec.t, M[m].rec.t)
                  /\ ListHit(Reverse(objects), ray, ray_t, HitRecordDefault).rec.t = rec.t
            /\ ~ret => rec = HitRecordDefault

\* Two members hit at the same smallest t with different records, and the
\* record returned is the first one's.
C4_Witness ==
    /\ pc = "list_returned"
    /\ Len(objects) = 2
    /\ LET M == Members
       IN  /\ M[1].hit
           /\ M[2].hit
           /\ M[1].rec.t = M[2].rec.t
           /\ M[1].rec # M[2].rec
           /\ rec = M[1].rec

\* C5: with a non-negative discriminant and roots r1 <= r2, Sphere.hit accepts
\* r1 if it is strictly inside the interval, otherwise r2 if that is, otherwise
\* reports no hit; an accepted t is strictly inside the interval and is the
\* nearest root that is; a negative discriminant reports no hit.
C5_NearestRootInside ==
    pc = "sphere_returned" =>
        LET q == Quadratic(objects[1], ray)
            inside == {x \in {q.root1, q.root2} : StrictlyInside(x)}
        IN  /\ FLt(q.discriminant, F(0)) => ~ret
            /\ ~FLt(q.discriminant, F(0)) /\ IsFinite(q.root1) => FLe(q.root1, q.root2)
            /\ ret = (~FLt(q.discriminant, F(0)) /\ inside # {})
            /\ ret => /\ rec.t \in inside
                      /\ \A x \in inside : FLe(rec.t, x)
                      /\ rec.point = At(ray, rec.t)
            /\ ~ret => rec = HitRecordDefault

\* The near root is at or below the interval and the far root is accepted.
C5_Witness ==
    /\ pc = "sphere_returned"
    /\ ret
    /\ LET q == Quadratic(objects[1], ray)
       IN  /\ FLe(q.root1, ray_t.min)
           /\ q.root1 # q.root2
           /\ rec.t = q.root2

OutwardNormal == VDiv(VSub(rec.point, objects[1].center), objects[1].radius)

Oriented ==
    /\ rec.front_face = FLt(Dot(ray.direction, OutwardNormal), F(0))
    /\ rec.normal = IF rec.front_face THEN OutwardNormal ELSE VNeg(OutwardNormal)

\* The ray starts outside the sphere and the hit is the near root.
NearFromOutside ==
    LET q == Quadratic(objects[1], ray)
    IN  FGt(q.c, F(0)) /\ rec.t = q.root1

\* C6 as stated: the normal of every accepted Sphere.hit is oriented against
\* the ray: front_face iff direction . outward_normal < 0, normal is the
\* outward normal or its negation accordingly, normal . direction <= 0 always
\* and < 0 for a ray from outside that hits the near surface.
C6_NormalAgainstRay ==
    pc = "sphere_returned" /\ ret =>
        /\ Oriented
        /\ FLe(Dot(rec.normal, ray.direction), F(0))
        /\ NearFromOutside => FLt(Dot(rec.normal, ray.direction), F(0))

\* C6 amended: front_face and normal are set as stated; normal . direction <= 0
\* holds for every sphere of positive radius, and < 0 (with front_face true)
\* for a ray from outside that hits the near surface of such a sphere with a
\* positive discriminant, that is, not tangentially.
C6_NormalAgainstRayPositiveRadius ==
    pc = "sphere_returned" /\ ret =>
        /\ Oriented
        /\ FGt(objects[1].radius, F(0)) =>
              /\ FLe(Dot(rec.normal, ray.direction), F(0))
              /\ NearFromOutside /\ FGt(Quadratic(objects[1], ray).discriminant, F(0)) =>
                    /\ FLt(Dot(rec.normal, ray.direction), F(0))
                    /\ rec.front_face

\* A ray from inside a sphere hits its far side: the normal is flipped.
C6_Witness ==
    /\ pc = "sphere_returned"
    /\ ret
    /\ FGt(objects[1].radius, F(0))
    /\ ~rec.front_face
    /\ rec.normal = VNeg(OutwardNormal)
    /\ FLt(Dot(rec.normal, ray.direction), F(0))

----------------------------------------------------------------------------
(* ray_color (camera.rs) *)

\* Records a scene may return for a query over (0.001, +inf).
WorldRecords ==
    { [t |-> t, point |-> p, normal |-> n, front_face |-> TRUE] :
      t \in {F(1), F(2)}, p \in {V(0, 0, -1), V(0, -1, -1)},
      n \in {V(0, 0, 1), V(0, 1, 0)} }

\* Values of random_unit_vec.
UnitVectors == {V(0, 0, 1), V(0, 0, -1), V(0, 1, 0), V(0, -1, 0), V(1, 0, 0)}

DepthExhaustedBelow(d) == d < 0

HalfWhole == F(1)

\* The test that ends the recursion.
DepthExhausted(d) == d <= 0

Half == Norm(1, 2)

\* The colour a call returns through k enclosing calls, each halving it.
RECURSIVE Attenuate(_, _)
Attenuate(c, k) == IF k = 0 THEN c ELSE VMul(Attenuate(c, k - 1), Half)

\* The gradient returned on a miss.
Sky(r) ==
    LET unit_dir == Unit(r.direction)
        a == FMul(Half, FAdd(unit_dir.y, F(1)))
    IN  VAdd(VMul(V(1, 1, 1), FSub(F(1), a)),
             VMul(Vec3New(Norm(1, 2), Norm(7, 10), F(1)), a))

InitColor ==
    /\ ray \in {RayNew(o, d) : o \in Origins, d \in Directions}
    /\ depth \in -1..MaxDepth
    /\ queries = 0
    /\ bounces = 0
    /\ pc = "ray_color"
    /\ ret = idle
    /\ ray_t = IntervalNew(Norm(1, 1000), INFINITY)
    /\ objects = << >>
    /\ rec = HitRecordDefault
    /\ RenderIdle
    /\ VecIdle

\* ray_color with the depth used up: black, through the enclosing calls.
RayColorExhausted ==
    /\ pc = "ray_color"
    /\ DepthExhausted(depth)
    /\ pc' = "color_returned"
    /\ ret' = Attenuate(Zero, bounces)
    /\ UNCHANGED <<ray, ray_t, objects, rec, depth, queries, bounces, renderVars, vecVars>>

\* ray_color whose query hits: the recursive call on the scattered ray.
RayColorHit ==
    /\ pc = "ray_color"
    /\ ~DepthExhausted(depth)
    /\ \E rc \in WorldRecords, u \in UnitVectors :
          /\ rec' = rc
          /\ ray' = RayNew(rc.point, VAdd(rc.normal, u))
    /\ queries' = queries + 1
    /\ depth' = depth - 1
    /\ bounces' = bounces + 1
    /\ UNCHANGED <<pc, ret, ray_t, objects, renderVars, vecVars>>

\* ray_color whose query misses: the sky, through the enclosing calls.
RayColorMiss ==
    /\ pc = "ray_color"
    /\ ~DepthExhausted(depth)
    /\ queries' = queries + 1
    /\ pc' = "color_returned"
    /\ ret' = Attenuate(Sky(ray), bounces)
    /\ UNCHANGED <<ray, ray_t, objects, rec, depth, bounces, renderVars, vecVars>>

NextColor == RayColorExhausted \/ RayColorHit \/ RayColorMiss

SpecColor == InitColor /\ [][NextColor]_vars

\* C7: ray_color called with depth <= 0 returns pure black for every ray and
\* every scene, without querying the scene.
C7_ExhaustedIsBlack ==
    [][(pc = "ray_color" /\ depth <= 0) =>
          (pc' = "color_returned" /\ ret' = Zero /\ queries' = queries)]_vars

C7_Witness ==
    /\ pc = "color_returned"
    /\ depth = 0
    /\ bounces = 0
    /\ queries = 0
    /\ ret = Zero
    /\ ray.direction # Zero

\* The depth of the outermost call: every recursion trades one unit of depth
\* for one enclosing call.
CallDepth == depth + bounces

\* 0.5^k.
HalfPower(k) == Norm(1, 2 ^ k)

\* A step of a call with depth d > 0 either returns, or is the recursion edge:
\* it queries the scene, records a hit and calls on with depth exactly one
\* less. Nothing else changes the depth.
C11_RecursionEdge ==
    /\ depth' # depth => pc = "ray_color" /\ depth > 0
    /\ (pc = "ray_color" /\ CallDepth > 0) =>
          \/ /\ pc' = "color_returned"
             /\ depth' = depth
             /\ bounces' = bounces
             /\ queries' \in {queries, queries + 1}
          \/ /\ pc' = "ray_color"
             /\ depth' = depth - 1
             /\ bounces' = bounces + 1
             /\ queries' = queries + 1
             /\ rec' \in WorldRecords
             /\ ray'.origin = rec'.point

\* At most d queries and a depth that never goes below 0, a call in progress
\* can always step; a miss after k < d hits returns the sky of the last
\* scattered ray times 0.5^k, and d hits in a row return black.
C11_Outcome ==
    CallDepth > 0 =>
        /\ depth >= 0
        /\ queries <= CallDepth
        /\ pc = "ray_color" => queries = bounces /\ ENABLED NextColor
        /\ pc = "color_returned" =>
              IF bounces = CallDepth
              THEN queries = CallDepth /\ ret = Zero
              ELSE /\ bounces < CallDepth
                   /\ queries = bounces + 1
                   /\ ret = VMul(Sky(ray), HalfPower(bounces))

\* C11: ray_color called with depth d > 0 recurses only on a hit and always
\* with depth exactly one less, so it makes at most d scene queries and then
\* returns (each step returns or lowers a depth that stays >= 0, and a call in
\* progress is never stuck); after k < d hits and a miss the result is the sky
\* colour of the last scattered ray times 0.5^k, and after d hits in a row it
\* is black.
C11_BoundedRecursion == [][C11_RecursionEdge]_vars /\ []C11_Outcome

C11_Witness ==
    /\ pc = "color_returned"
    /\ CallDepth = 2
    /\ bounces = 1
    /\ queries = 2
    /\ rec \in WorldRecords
    /\ ray.origin = rec.point
    /\ ret = VMul(Sky(ray), Norm(1, 2))
    /\ ret # Sky(ray)
    /\ ret.x.d # 0

----------------------------------------------------------------------------
(* Vec3 operations *)

MaxIndex == 5

ChannelInputs == {F(-1), F(0), Norm(1, 100), Norm(1, 4), Norm(1, 2), Norm(9, 10),
                  Norm(999, 1000), F(1), F(2)}

InitVec3 ==
    /\ \/ /\ pc = "rgba"
          /\ vec \in {Vec3New(x, y, z) : x \in ChannelInputs, y \in ChannelInputs,
                                         z \in ChannelInputs}
          /\ arg = [index |-> 0, value |-> F(0)]
       \/ /\ pc \in {"index", "index_mut"}
          /\ vec \in {V(x, y, z) : x \in 1..3, y \in 1..3, z \in 1..3}
          /\ arg \in [index : 0..MaxIndex, value : {F(0), F(9)}]
    /\ ret = idle
    /\ RenderIdle
    /\ HitIdle
    /\ ColorIdle

\* A call of rgba.
CallRgba ==
    /\ pc = "rgba"
    /\ ret' = Rgba(vec)
    /\ pc' = "rgba_returned"
    /\ UNCHANGED <<vec, arg, renderVars, hitVars, colorVars>>

\* A read vec[index].
CallIndex ==
    /\ pc = "index"
    /\ ret' = Index(vec, arg.index)
    /\ pc' = IF ret' = Panic THEN "panicked" ELSE "index_returned"
    /\ UNCHANGED <<vec, arg, renderVars, hitVars, colorVars>>

\* A write vec[index] = value.
CallIndexMut ==
    /\ pc = "index_mut"
    /\ LET w == IndexMut(vec, arg.index, arg.value)
       IN  IF w = Panic
           THEN pc' = "panicked" /\ ret' = Panic /\ vec' = vec
           ELSE pc' = "index_mut_returned" /\ ret' = ret /\ vec' = w
    /\ UNCHANGED <<arg, renderVars, hitVars, colorVars>>

NextVec3 == CallRgba \/ CallIndex \/ CallIndexMut

SpecVec3 == InitVec3 /\ [][NextVec3]_vars

\* The channel of one component: 0 for x <= 0; otherwise the gamma g is the
\* square root of x rounded down by less than 1/1024, and the channel is the
\* integer part of min(g, 0.999) * 255.99.
ChannelOk(x, c) ==
    /\ c \in 0..255
    /\ FLe(x, F(0)) => c = 0
    /\ FGt(x, F(0)) =>
          LET g  == LinearToGamma(x)
              g1 == FAdd(g, Norm(1, 1024))
              m  == IF FGt(g, Norm(999, 1000)) THEN Norm(999, 1000) ELSE g
          IN  /\ FLe(FMul(g, g), x)
              /\ FLt(x, FMul(g1, g1))
              /\ FLe(F(c), FMul(m, Norm(25599, 100)))
              /\ FLt(FMul(m, Norm(25599, 100)), F(c + 1))

C10_IndexAddressesXYZ ==
    [][/\ pc = "index" =>
             /\ vec' = vec
             /\ arg.index = 0 => ret' = vec.x /\ pc' = "index_returned"
             /\ arg.index = 1 => ret' = vec.y /\ pc' = "index_returned"
             /\ arg.index = 2 => ret' = vec.z /\ pc' = "index_returned"
             /\ arg.index > 2 => ret' = Panic /\ pc' = "panicked"
       /\ pc = "index_mut" =>
             /\ arg.index = 0 => vec' = Vec3New(arg.value, vec.y, vec.z)
             /\ arg.index = 1 => vec' = Vec3New(vec.x, arg.value, vec.z)
             /\ arg.index = 2 => vec' = Vec3New(vec.x, vec.y, arg.value)
             /\ arg.index <= 2 => pc' = "index_mut_returned"
             /\ arg.index > 2 => vec' = vec /\ pc' = "panicked"]_vars

C10_Witness ==
    /\ pc = "index_mut_returned"
    /\ arg.index = 2
    /\ vec.z = arg.value
    /\ vec.x # arg.value
    /\ vec.y # arg.value

====
